---- MODULE Spec2Model ----
(***************************************************************************)
(* Order placement of the e-commerce backend (POST /orders), modelled as   *)
(* a state machine over the relational store.  Every `await pool.query`    *)
(* of the handler is one atomic store step; the JavaScript that runs       *)
(* between two awaits belongs to the step of the query it follows, so      *)
(* requests interleave exactly at their queries.  The other routes of the  *)
(* server are modelled as handlers that run one at a time; POST /wishlist  *)
(* and DELETE /users/:id are modelled query by query as well.              *)
(***************************************************************************)
EXTENDS Integers, Sequences, FiniteSets, TLC

\* ------------------------------------------------------------------ bounds
NumReqs  == 2      \* order requests in one behaviour
MaxItems == 2      \* lines in one request body
MaxQty   == 1      \* largest quantity of a line
MaxStock == 1      \* largest initial stock of a product

\* Sub-cent resolution of a JavaScript number: a double sent to the store is
\* counted in units of 1/Scale cent, so that a representation error smaller
\* than half a cent can be expressed.
Scale == 8

Reqs       == 1..NumReqs
ProductIds == {"A", "B"}          \* ids of rows of the products table
UnknownId  == "X"                 \* a well-formed id that references no row
NoId       == ""                  \* product_id missing from the line (falsy)
Quantities == (-1)..MaxQty         \* 0 stands for every falsy quantity
\* `total` is a double: the sum of the doubles product.price * quantity.  It
\* differs from the exact sum by the accumulated representation error, which
\* for amounts of a decimal(10,2) column is far below half a cent.  The
\* variable total holds the exact sum in cents; the error e is applied where
\* the double is used.
FloatErr   == (1 - Scale \div 2)..(Scale \div 2 - 1)

PriceOf(p) == IF p = "A" THEN 1000 ELSE 250     \* cents, decimal(10,2)

\* Rows of the users table when the server starts: one buyer for each
\* request, a seller and an administrator.
UserIds   == 1..(NumReqs + 2)
RoleOf(u) == IF u <= NumReqs THEN "comprador"
             ELSE IF u = NumReqs + 1 THEN "vendedor" ELSE "admin"
\* products.seller_id: product A was uploaded by the seller, product B by
\* the administrator
SellerOf(p) == IF p = "A" THEN NumReqs + 1 ELSE NumReqs + 2

\* The Authorization header of a request: absent, without a token after
\* "Bearer", carrying a token that jwt.verify rejects, or carrying a token
\* that verifies to the payload { id, role } signed at login.
NoHeader     == [jwt |-> "no header", id |-> 0, role |-> ""]
NoToken      == [jwt |-> "no token", id |-> 0, role |-> ""]
InvalidToken == [jwt |-> "invalid or expired", id |-> 0, role |-> ""]
Bearer(u, role) == [jwt |-> "verified", id |-> u, role |-> role]
Headers == {NoHeader, NoToken, InvalidToken}
             \cup {Bearer(u, RoleOf(u)) : u \in UserIds}

NoRow   == [id |-> "undefined"]   \* productResult.rows[0] of an empty result
NoOrder == [id |-> 0]
\* the place a deleted row leaves in the orders table, whose ids are serial
DeletedOrder == [id |-> 0, buyer_id |-> 0, total |-> 0, status |-> ""]
NoRes   == [status |-> 0]
NoBody  == [isArray |-> FALSE, items |-> <<>>]
NoReq   == [route |-> "", authorization |-> NoHeader, id |-> ""]
NoStore == [products |-> <<>>, orders |-> <<>>, order_items |-> <<>>,
            users |-> <<>>, wishlist |-> <<>>, reviews |-> <<>>]

\* one line of req.body.products
Items == [product_id : ProductIds \cup {UnknownId}, quantity : Quantities]
           \cup {[product_id |-> NoId, quantity |-> 1]}

\* The for-of loop finds either a further line or the end of the array.  The
\* handler reads the lines in order and a line it never reaches has no effect,
\* so each line of the body is drawn when the loop reaches it.
EndOfArray == [product_id |-> "end-of-array", quantity |-> 0]
Reads      == Items \cup {EndOfArray}

VARIABLES
  products,        \* table products: id -> row
  orders,          \* table orders, in insertion order
  order_items,     \* table order_items, in insertion order
  pc,              \* per request: the query the handler is waiting for
  body,            \* per request: req.body.products
  idx,             \* per request: position of the running for-of loop
  total,           \* per request: let total (a JavaScript number)
  productDetails,  \* per request: const productDetails
  product,         \* per request: const product of the last iteration
  order,           \* per request: const order
  res,             \* per request: the response sent
  pre,             \* per request: the store when the request arrived
  req,             \* per request: route, Authorization header, params.id
  users,           \* table users: id -> row
  wishlist,        \* table wishlist, in insertion order
  reviews,         \* table reviews, in insertion order
  productsResult   \* per request: the seller's products read by DELETE /users/:id

vars == <<products, orders, order_items, pc, body, idx, total, productDetails,
          product, order, res, pre, req, users, wishlist, reviews,
          productsResult>>

store == [products |-> products, orders |-> orders, order_items |-> order_items,
          users |-> users, wishlist |-> wishlist, reviews |-> reviews]

Init ==
  /\ products \in {[p \in ProductIds |->
                      [id |-> p, seller_id |-> SellerOf(p),
                       price |-> PriceOf(p), stock |-> s[p]]]
                    : s \in [ProductIds -> 0..MaxStock]}
  /\ orders = <<>>
  /\ order_items = <<>>
  /\ pc = [r \in Reqs |-> "idle"]
  /\ body = [r \in Reqs |-> NoBody]
  /\ idx = [r \in Reqs |-> 0]
  /\ total = [r \in Reqs |-> 0]
  /\ productDetails = [r \in Reqs |-> <<>>]
  /\ productsResult = [r \in Reqs |-> <<>>]
  /\ product = [r \in Reqs |-> NoRow]
  /\ order = [r \in Reqs |-> NoOrder]
  /\ res = [r \in Reqs |-> NoRes]
  /\ pre = [r \in Reqs |-> NoStore]
  /\ req = [r \in Reqs |-> NoReq]
  /\ users = [u \in UserIds |-> [id |-> u, role |-> RoleOf(u)]]
  /\ wishlist = <<>>
  /\ reviews = <<>>

\* ------------------------------------------------------------- responses
BadBody      == [status |-> 400,
                 error |-> "Produtos sao obrigatorios e devem ser um array"]
MissingField == [status |-> 400,
                 error |-> "Cada produto deve ter ID e quantidade"]
StoreError   == [status |-> 500, error |-> "Erro ao criar pedido"]
Created(row) == [status |-> 201, json |-> row]

\* variant: the message leaves the product id out
UnavailableErrorNoId(product_id) ==
  [status |-> 400,
   error |-> "Produto nao disponivel ou estoque insuficiente",
   product_id |-> NoId]

\* `Produto ${product_id} nao disponivel ou estoque insuficiente`
UnavailableError(product_id) ==
  [status |-> 400,
   error |-> "Produto nao disponivel ou estoque insuficiente",
   product_id |-> product_id]

\* ------------------------------------------------------------ middleware
\* next(): the middleware sends no response and the next function runs
Forward == NoRes

\* authenticate: req.user = decoded, or 401
Authenticate(h) ==
  IF h.jwt = "no header"
    THEN [status |-> 401, error |-> "Token nao fornecido"]
  ELSE IF h.jwt = "no token"
    THEN [status |-> 401, error |-> "Formato de token invalido"]
  ELSE IF h.jwt = "invalid or expired"
    THEN [status |-> 401, error |-> "Token invalido ou expirado"]
  ELSE Forward

\* variant: every authenticated user is let through
CheckAnyRole(role, user) == Forward

\* checkAdminOrRole(role)
CheckAdminOrRole(role, user) ==
  IF user.role = "admin" \/ user.role = role
    THEN Forward
    ELSE [status |-> 403,
          error |-> "Apenas (role)s ou administradores podem acessar esta rota",
          role |-> role]

\* checkAdminOnly
CheckAdminOnly(user) ==
  IF user.role # "admin"
    THEN [status |-> 403,
          error |-> "Apenas administradores podem acessar esta rota"]
    ELSE Forward

\* app.METHOD(path, first, second, handler): the second function runs only
\* when the first called next()
Chain(first, second) == IF first # Forward THEN first ELSE second

\* ---------------------------------------------------------- pure helpers
\* req.user.id, set by authenticate from the verified token
UserOf(r) == req[r].authorization.id

\* pool.query('SELECT * FROM products WHERE id = $1').rows[0]
SelectProduct(tbl, product_id) ==
  IF product_id \in DOMAIN tbl THEN tbl[product_id] ELSE NoRow

\* variant: the check lets one unit more than the stock through
UnavailableLax(row, quantity) == row = NoRow \/ row.stock + 1 < quantity

\* !product || product.stock < quantity
Unavailable(row, quantity) == row = NoRow \/ row.stock < quantity

\* !product_id || !quantity
FalsyLine(item) == item.product_id = NoId \/ item.quantity = 0

\* the double total as sent to the store, in 1/Scale cent
FloatOf(cents, e) == cents * Scale + e

\* variant: the column truncates instead of rounding
NumericColumnFloor(x) == x \div Scale

\* A double written to a decimal(10,2) column is rounded to the nearest cent.
NumericColumn(x) == (x + Scale \div 2) \div Scale

\* variant: the update takes one unit whatever the quantity
StockAfterOne(stock, quantity) == stock - 1

\* SET stock = stock - $1
StockAfter(stock, quantity) == stock - quantity

\* where the for-of loop over the request's lines goes at position k
LineCheck(items, k) ==
  IF k > Len(items) THEN "insertOrder"
  ELSE IF FalsyLine(items[k]) THEN "reject"
  ELSE "select"

\* --------------------------------------------------------- handler steps
\* res.status(..).json(..): the handler returns and its locals are dropped.
Reply(r, response) ==
  /\ res' = [res EXCEPT ![r] = response]
  /\ pc' = [pc EXCEPT ![r] = "done"]
  /\ idx' = [idx EXCEPT ![r] = 0]
  /\ total' = [total EXCEPT ![r] = 0]
  /\ productDetails' = [productDetails EXCEPT ![r] = <<>>]
  /\ productsResult' = [productsResult EXCEPT ![r] = <<>>]
  /\ product' = [product EXCEPT ![r] = NoRow]
  /\ order' = [order EXCEPT ![r] = NoOrder]

Await(r, query, k) ==
  /\ pc' = [pc EXCEPT ![r] = query]
  /\ idx' = [idx EXCEPT ![r] = k]
  /\ UNCHANGED res

\* the lines read so far, extended by what the loop finds next
Extend(items, nxt) == IF nxt = EndOfArray THEN items ELSE Append(items, nxt)

\* head of `for (const item of products)` at position k, up to the next
\* await: items are the lines known after the loop has looked at position k;
\* tot, details and row are total, productDetails and product at that point
Iterate(r, items, k, tot, details, row) ==
  /\ Len(items) <= MaxItems
  /\ body' = [body EXCEPT ![r] = [isArray |-> TRUE, items |-> items]]
  /\ IF LineCheck(items, k) = "reject"
       THEN Reply(r, MissingField)
       ELSE /\ Await(r, LineCheck(items, k), k)
            /\ total' = [total EXCEPT ![r] = tot]
            /\ productDetails' = [productDetails EXCEPT ![r] = details]
            /\ product' = [product EXCEPT ![r] = row]
            /\ UNCHANGED <<order, productsResult>>

\* A request arrives.  Requests are numbered in the order of their arrival.
Arrive(r, route, h, id) ==
  /\ pc[r] = "idle"
  /\ \A q \in Reqs : q < r => pc[q] # "idle"
  /\ pre' = [pre EXCEPT ![r] = store]
  /\ req' = [req EXCEPT ![r] = [route |-> route, authorization |-> h,
                                id |-> id]]

\* POST /orders arrives with Authorization header h: the middleware, the
\* array check and the head of the first iteration run before the first
\* query is awaited.
PostOrders(r, h, isArray, nxt) ==
  /\ Arrive(r, "POST /orders", h, NoId)
  /\ UNCHANGED <<products, orders, order_items, users, wishlist, reviews>>
  /\ LET refusal == Chain(Authenticate(h), CheckAdminOrRole("comprador", h))
     IN  IF refusal # Forward
           THEN /\ body' = [body EXCEPT ![r] = NoBody]
                /\ Reply(r, refusal)
         ELSE IF ~isArray
           THEN /\ body' = [body EXCEPT ![r] = NoBody]
                /\ Reply(r, BadBody)
         ELSE Iterate(r, Extend(<<>>, nxt), 1, 0, <<>>, NoRow)

\* POST /orders of request r, sent by buyer r with the token of their login
Begin(r, isArray, nxt) ==
  PostOrders(r, Bearer(r, RoleOf(r)), isArray, nxt)

\* variant: the stock of a line is taken as soon as the line passes its check
SelectEager(r, nxt) ==
  /\ pc[r] = "select"
  /\ LET item == body[r].items[idx[r]]
         row  == SelectProduct(products, item.product_id)
     IN  /\ UNCHANGED <<orders, order_items, pre, req, users, wishlist, reviews>>
         /\ IF Unavailable(row, item.quantity)
              THEN /\ UNCHANGED <<products, body>>
                   /\ Reply(r, UnavailableError(item.product_id))
              ELSE /\ products' = [products EXCEPT ![item.product_id].stock =
                                     StockAfter(@, item.quantity)]
                   /\ Iterate(r, Extend(body[r].items, nxt), idx[r] + 1,
                        total[r] + row.price * item.quantity,
                        Append(productDetails[r],
                               [product_id |-> item.product_id,
                                quantity |-> item.quantity,
                                price |-> row.price]),
                        row)

\* The SELECT of one line returns; stock check, total and snapshot of the
\* line, then the head of the next iteration.
Select(r, nxt) ==
  /\ pc[r] = "select"
  /\ LET item == body[r].items[idx[r]]
         row  == SelectProduct(products, item.product_id)
     IN  /\ UNCHANGED <<products, orders, order_items, pre, req, users, wishlist, reviews>>
         /\ IF Unavailable(row, item.quantity)
              THEN /\ UNCHANGED body
                   /\ Reply(r, UnavailableError(item.product_id))
              ELSE /\ Iterate(r, Extend(body[r].items, nxt), idx[r] + 1,
                        total[r] + row.price * item.quantity,
                        Append(productDetails[r],
                               [product_id |-> item.product_id,
                                quantity |-> item.quantity,
                                price |-> row.price]),
                        row)

\* the store rejects INSERT INTO orders: the buyer is no longer a user
OrderInsertRejected(r) == UserOf(r) \notin DOMAIN users

\* INSERT INTO orders ... RETURNING *; with no line to insert both later
\* loops are empty and the handler answers 201 at once.
InsertOrder(r, e) ==
  /\ pc[r] = "insertOrder"
  /\ ~OrderInsertRejected(r)
  /\ LET row == [id |-> Len(orders) + 1, buyer_id |-> UserOf(r),
                 total |-> NumericColumn(FloatOf(total[r], e)),
                 status |-> "pendente"]
     IN  /\ orders' = Append(orders, row)
         /\ UNCHANGED <<products, order_items, body, pre, req, users, wishlist, reviews>>
         /\ IF productDetails[r] = <<>>
              THEN Reply(r, Created(row))
              ELSE /\ order' = [order EXCEPT ![r] = row]
                   /\ Await(r, "insertItem", 1)
                   /\ UNCHANGED <<total, productDetails, productsResult, product>>

\* variant: order_items rows may reference products and orders that are gone
ItemInsertUnchecked(r) == FALSE

\* the store rejects INSERT INTO order_items: the product or the order that
\* the row references is no longer there
ItemInsertRejected(r) ==
  \/ productDetails[r][idx[r]].product_id \notin DOMAIN products
  \/ orders[order[r].id] = DeletedOrder

\* INSERT INTO order_items for productDetails[idx]
InsertItem(r) ==
  /\ pc[r] = "insertItem"
  /\ ~ItemInsertRejected(r)
  /\ LET item == productDetails[r][idx[r]]
     IN  order_items' = Append(order_items,
                          [order_id |-> order[r].id,
                           product_id |-> item.product_id,
                           quantity |-> item.quantity,
                           price |-> item.price])
  /\ UNCHANGED <<products, orders, body, total, productDetails, productsResult, product,
                 order, pre, req, users, wishlist, reviews>>
  /\ IF idx[r] = Len(productDetails[r])
       THEN Await(r, "updateStock", 1)
       ELSE Await(r, "insertItem", idx[r] + 1)

\* variant: after the stock of a line the handler inserts the next line
UpdateStockThenItem(r) ==
  /\ pc[r] = "updateStock"
  /\ LET item == productDetails[r][idx[r]]
     IN  products' = IF item.product_id \in DOMAIN products
                       THEN [products EXCEPT ![item.product_id].stock =
                               StockAfter(@, item.quantity)]
                       ELSE products
  /\ UNCHANGED <<orders, order_items, body, pre, req, users, wishlist, reviews>>
  /\ IF idx[r] = Len(productDetails[r])
       THEN Reply(r, Created(order[r]))
       ELSE /\ Await(r, "insertItem", idx[r] + 1)
            /\ UNCHANGED <<total, productDetails, productsResult, product, order>>

\* UPDATE products SET stock = stock - $1 WHERE id = $2 for productDetails[idx]
UpdateStock(r) ==
  /\ pc[r] = "updateStock"
  /\ LET item == productDetails[r][idx[r]]
     IN  products' = IF item.product_id \in DOMAIN products
                       THEN [products EXCEPT ![item.product_id].stock =
                               StockAfter(@, item.quantity)]
                       ELSE products
  /\ UNCHANGED <<orders, order_items, body, pre, req, users, wishlist, reviews>>
  /\ IF idx[r] = Len(productDetails[r])
       THEN Reply(r, Created(order[r]))
       ELSE /\ Await(r, "updateStock", idx[r] + 1)
            /\ UNCHANGED <<total, productDetails, productsResult, product, order>>

\* variant: the catch block logs the error and sends no response
QueryFailSilent(r) ==
  /\ pc[r] \in {"select", "insertOrder", "insertItem", "updateStock"}
  /\ pc' = [pc EXCEPT ![r] = "failed"]
  /\ UNCHANGED <<products, orders, order_items, body, idx, total,
                 productDetails, productsResult, product, order, res, pre, req, users,
                 wishlist, reviews>>

\* The awaited query rejects: the catch block answers 500.  Nothing that
\* the request has written is undone.
QueryFail(r) ==
  /\ pc[r] \in {"select", "insertOrder", "insertItem", "updateStock"}
  /\ UNCHANGED <<products, orders, order_items, body, pre, req, users, wishlist, reviews>>
  /\ Reply(r, StoreError)

InFlight(r) == pc[r] \notin {"idle", "done"}

\* A request that arrives while no other request is being handled
BeginAlone(r, isArray, nxt) ==
  /\ \A q \in Reqs : ~InFlight(q)
  /\ Begin(r, isArray, nxt)

\* ------------------------------------------------------- specifications
\* Requests interleave at every query.
Next ==
  \E r \in Reqs :
    \/ \E isArray \in BOOLEAN, nxt \in Reads : Begin(r, isArray, nxt)
    \/ \E nxt \in Reads : Select(r, nxt)
    \/ \E e \in FloatErr : InsertOrder(r, e)
    \/ InsertItem(r)
    \/ UpdateStock(r)
    \/ QueryFail(r)

Spec == Init /\ [][Next]_vars

\* Requests are handled one at a time.
NextSeq ==
  \E r \in Reqs :
    \/ \E isArray \in BOOLEAN, nxt \in Reads : BeginAlone(r, isArray, nxt)
    \/ \E nxt \in Reads : Select(r, nxt)
    \/ \E e \in FloatErr : InsertOrder(r, e)
    \/ InsertItem(r)
    \/ UpdateStock(r)
    \/ QueryFail(r)

SpecSeq == Init /\ [][NextSeq]_vars

\* The continuation of request r once the query it awaits has settled: the
\* query returned and the handler goes on, or it rejected and the catch
\* block runs.
Settle(r) ==
  \/ \E nxt \in Reads : Select(r, nxt)
  \/ \E e \in FloatErr : InsertOrder(r, e)
  \/ InsertItem(r)
  \/ UpdateStock(r)
  \/ QueryFail(r)

\* Requests are handled one at a time; every awaited query settles, and the
\* event loop then runs the continuation of the request that awaited it.
SpecLive == Init /\ [][NextSeq]_vars /\ \A r \in Reqs : WF_vars(Settle(r))

\* ------------------------------------------------------ the other routes
\* Each of the other handlers is modelled whole, as a function from the store
\* it finds to the response it sends and the store it leaves.  fail is the
\* position, among the queries the handler issues, of the query that rejects
\* (0: none does); the catch block then answers 500 and what the earlier
\* queries wrote stays written.  The longest handler, DELETE /users/:id,
\* issues three queries and two more for each product of the user.
MaxQueries == 3 + 2 * (1 + NumReqs)
Fails      == 0..MaxQueries

\* The schema of the tables is not part of the source: a DELETE of a row that
\* other rows reference either is rejected by the store or removes them too.
OnDelete == {"NO ACTION", "CASCADE"}

\* ids of rows inserted into products and users by request r
NewProductIds     == <<"C", "D", "E", "F">>
FreshProductId(r) == NewProductIds[r]
FreshUserId(r)    == NumReqs + 2 + r

\* values a seller sends as price (cents) and stock; 0 is falsy
NewPrices == {0, 500}
NewStocks == 0..MaxStock
\* params.id of the product routes; "all" is a path segment that the pattern
\* /products/:id matches as well, and the id of no product
PathIds   == ProductIds \cup {"all"}
\* the last path segment of a GET /products/<segment> request
Segments  == PathIds \cup {"admin"}

Ok(json)           == [status |-> 200, json |-> json]
Error(status, msg) == [status |-> status, error |-> msg]
Kept(T, response)  == [res |-> response, store |-> T]

Without(f, k) == [x \in DOMAIN f \ {k} |-> f[x]]
With(f, k, v) == [x \in DOMAIN f \cup {k} |-> IF x = k THEN v ELSE f[x]]
Refers(rows, col, v) == \E i \in 1..Len(rows) : rows[i][col] = v

\* SELECT * FROM products WHERE id = $1 AND seller_id = $2
OwnProduct(T, id, user) ==
  IF id \in DOMAIN T.products /\ T.products[id].seller_id = user.id
    THEN T.products[id] ELSE NoRow

\* DELETE FROM order_items WHERE product_id = $1
DeleteOrderItemsOf(T, id) ==
  [T EXCEPT !.order_items = SelectSeq(@, LAMBDA row : row.product_id # id)]

\* rows of order_items, wishlist or reviews reference the product
ProductReferenced(T, id) ==
  \/ Refers(T.order_items, "product_id", id)
  \/ Refers(T.wishlist, "product_id", id)
  \/ Refers(T.reviews, "product_id", id)

\* DELETE FROM products WHERE id = $1 is rejected by the store
ProductDeleteRejected(T, id, onDelete) ==
  id \in DOMAIN T.products /\ onDelete = "NO ACTION" /\ ProductReferenced(T, id)

\* DELETE FROM products WHERE id = $1, when the store accepts it
DeleteProductRow(T, id) ==
  IF id \notin DOMAIN T.products THEN T
  ELSE [T EXCEPT
          !.products    = Without(@, id),
          !.order_items = SelectSeq(@, LAMBDA row : row.product_id # id),
          !.wishlist    = SelectSeq(@, LAMBDA row : row.product_id # id),
          !.reviews     = SelectSeq(@, LAMBDA row : row.product_id # id)]

\* POST /products/upload: the handler behind authenticate and
\* checkAdminOrRole('vendedor').  The name is taken as given.
UploadProduct(T, user, id, price, stock, fail) ==
  IF price = 0 \/ stock = 0
    THEN Kept(T, Error(400, "Nome, preco e estoque sao obrigatorios"))
  ELSE IF fail = 1 \/ user.id \notin DOMAIN T.users
    THEN Kept(T, Error(500, "Erro ao adicionar produto"))
  ELSE LET row == [id |-> id, seller_id |-> user.id,
                   price |-> price, stock |-> stock]
       IN  [res |-> Created(row),
            store |-> [T EXCEPT !.products = With(@, id, row)]]

\* GET /products/:id
GetProduct(T, user, id, fail) ==
  IF fail = 1 THEN Kept(T, Error(500, "Erro ao buscar produto"))
  ELSE IF OwnProduct(T, id, user) = NoRow
    THEN Kept(T, Error(404, "Produto nao encontrado ou voce nao tem permissao"))
  ELSE Kept(T, Ok(OwnProduct(T, id, user)))

\* variant: the new price is written to the product's line items as well
EditProductRepricing(T, user, id, price, stock, fail) ==
  IF fail = 1 THEN Kept(T, Error(500, "Erro ao editar produto"))
  ELSE IF OwnProduct(T, id, user) = NoRow
    THEN Kept(T, Error(403, "Produto nao encontrado ou voce nao tem permissao"))
  ELSE IF fail = 2 THEN Kept(T, Error(500, "Erro ao editar produto"))
  ELSE LET row == [T.products[id] EXCEPT !.price = price, !.stock = stock]
       IN  [res |-> Ok(row),
            store |-> [T EXCEPT
               !.products = [@ EXCEPT ![id] = row],
               !.order_items = [i \in 1..Len(@) |->
                  IF @[i].product_id = id
                    THEN [@[i] EXCEPT !.price = price] ELSE @[i]]]]

\* PUT /products/:id
EditProduct(T, user, id, price, stock, fail) ==
  IF fail = 1 THEN Kept(T, Error(500, "Erro ao editar produto"))
  ELSE IF OwnProduct(T, id, user) = NoRow
    THEN Kept(T, Error(403, "Produto nao encontrado ou voce nao tem permissao"))
  ELSE IF fail = 2 THEN Kept(T, Error(500, "Erro ao editar produto"))
  ELSE LET row == [T.products[id] EXCEPT !.price = price, !.stock = stock]
       IN  [res |-> Ok(row),
            store |-> [T EXCEPT !.products = [@ EXCEPT ![id] = row]]]

\* DELETE /products/:id
RemoveProduct(T, user, id, onDelete, fail) ==
  IF fail = 1 THEN Kept(T, Error(500, "Erro ao remover produto"))
  ELSE IF OwnProduct(T, id, user) = NoRow
    THEN Kept(T, Error(403, "Produto nao encontrado ou voce nao tem permissao"))
  ELSE IF fail = 2 \/ ProductDeleteRejected(T, id, onDelete)
    THEN Kept(T, Error(500, "Erro ao remover produto"))
  ELSE [res |-> Ok("Produto removido com sucesso"),
        store |-> DeleteProductRow(T, id)]

\* DELETE /products/admin/:id
RemoveProductAdmin(T, id, onDelete, fail) ==
  IF fail = 1 THEN Kept(T, Error(500, "Erro ao remover produto (admin)"))
  ELSE LET T1 == DeleteOrderItemsOf(T, id)
       IN  IF fail \in {2, 3} \/ ProductDeleteRejected(T1, id, onDelete)
             THEN Kept(T1, Error(500, "Erro ao remover produto (admin)"))
             ELSE [res |-> Ok("Produto removido com sucesso (admin)"),
                   store |-> DeleteProductRow(T1, id)]

\* GET /products/all
ListAllProducts(T, fail) ==
  IF fail = 1 THEN Kept(T, Error(500, "Erro ao listar todos os produtos"))
  ELSE Kept(T, Ok({T.products[p] : p \in DOMAIN T.products}))

\* GET /products/admin (imageurl, which the handler rewrites, is not kept)
ListProductsAdmin(T, fail) ==
  IF fail = 1 THEN Kept(T, Error(500, "Erro ao listar produtos (admin)"))
  ELSE Kept(T, Ok({T.products[p] : p \in DOMAIN T.products}))

\* GET /products with the default page, limit, search and priceFilter
ListProducts(T, fail) ==
  IF fail \in {1, 2} THEN Kept(T, Error(500, "Erro ao listar produtos"))
  ELSE Kept(T, Ok([products |-> {T.products[p] : p \in DOMAIN T.products},
                   totalItems |-> Cardinality(DOMAIN T.products)]))

\* GET /seller/products with the default page and limit
ListSellerProducts(T, user, fail) ==
  IF fail \in {1, 2}
    THEN Kept(T, Error(500, "Erro ao listar produtos do vendedor"))
  ELSE LET own == {p \in DOMAIN T.products : T.products[p].seller_id = user.id}
       IN  Kept(T, Ok([products |-> {T.products[p] : p \in own},
                       totalItems |-> Cardinality(own)]))

\* ORDER BY created_at DESC of rows kept in insertion order
Newest(rows) == [i \in 1..Len(rows) |-> rows[Len(rows) + 1 - i]]

\* GET /products/:id/reviews: reviews r JOIN users u ON r.user_id = u.id
ListReviews(T, id, fail) ==
  IF fail = 1 THEN Kept(T, Error(500, "Erro ao listar avaliacoes"))
  ELSE Kept(T, Ok(Newest(SelectSeq(T.reviews,
         LAMBDA row : row.product_id = id /\ row.user_id \in DOMAIN T.users))))

\* POST /products/:id/reviews
AddReview(T, user, id, rating, fail) ==
  IF fail = 1 THEN Kept(T, Error(500, "Erro ao adicionar avaliacao"))
  ELSE IF id \notin DOMAIN T.products
    THEN Kept(T, Error(404, "Produto nao encontrado"))
  ELSE IF fail = 2 THEN Kept(T, Error(500, "Erro ao adicionar avaliacao"))
  ELSE [res |-> Ok("Avaliacao adicionada com sucesso"),
        store |-> [T EXCEPT !.reviews =
                     Append(@, [product_id |-> id, user_id |-> user.id,
                                rating |-> rating])]]

\* GET /wishlist: wishlist w JOIN products p ON w.product_id = p.id
ListWishlist(T, user, fail) ==
  IF fail = 1
    THEN Kept(T, Error(500, "Erro ao listar itens da lista de desejos"))
  ELSE LET mine == SelectSeq(T.wishlist,
                     LAMBDA row : row.user_id = user.id
                                  /\ row.product_id \in DOMAIN T.products)
       IN  Kept(T, Ok([i \in 1..Len(mine) |-> T.products[mine[i].product_id]]))

\* POST /wishlist
AddWishlist(T, user, product_id, fail) ==
  IF fail = 1
    THEN Kept(T, Error(500, "Erro ao adicionar a lista de desejos"))
  ELSE IF product_id \notin DOMAIN T.products
    THEN Kept(T, Error(404, "Produto nao encontrado"))
  ELSE IF fail = 2
    THEN Kept(T, Error(500, "Erro ao adicionar a lista de desejos"))
  ELSE IF \E i \in 1..Len(T.wishlist) :
            T.wishlist[i] = [user_id |-> user.id, product_id |-> product_id]
    THEN Kept(T, Error(400, "Produto ja esta na lista de desejos"))
  ELSE IF fail = 3
    THEN Kept(T, Error(500, "Erro ao adicionar a lista de desejos"))
  ELSE [res |-> Ok("Produto adicionado a lista de desejos com sucesso"),
        store |-> [T EXCEPT !.wishlist =
                     Append(@, [user_id |-> user.id,
                                product_id |-> product_id])]]

\* DELETE /wishlist/:id
RemoveWishlist(T, user, id, fail) ==
  IF fail = 1
    THEN Kept(T, Error(500, "Erro ao remover da lista de desejos"))
  ELSE IF ~\E i \in 1..Len(T.wishlist) :
             T.wishlist[i] = [user_id |-> user.id, product_id |-> id]
    THEN Kept(T, Error(404, "Produto nao encontrado na lista de desejos"))
  ELSE [res |-> Ok("Produto removido da lista de desejos com sucesso"),
        store |-> [T EXCEPT !.wishlist =
                     SelectSeq(@, LAMBDA row :
                       row # [user_id |-> user.id, product_id |-> id])]]

\* variant: the listing has no WHERE buyer_id = $1
ListOrdersOfAll(T, user, fail) ==
  IF fail = 1 THEN Kept(T, Error(500, "Erro ao listar pedidos"))
  ELSE Kept(T, Ok(Newest(SelectSeq(T.orders,
                           LAMBDA row : row # DeletedOrder))))

\* GET /orders
ListOrders(T, user, fail) ==
  IF fail = 1 THEN Kept(T, Error(500, "Erro ao listar pedidos"))
  ELSE Kept(T, Ok(Newest(SelectSeq(T.orders,
                           LAMBDA row : row.buyer_id = user.id))))

\* GET /users
ListUsers(T, fail) ==
  IF fail = 1 THEN Kept(T, Error(500, "Erro ao listar usuarios (admin)"))
  ELSE Kept(T, Ok({T.users[u] : u \in DOMAIN T.users}))

\* POST /register: role || 'comprador'
Register(T, id, role, fail) ==
  IF fail = 1 THEN Kept(T, Error(500, "Erro ao registrar usuario"))
  ELSE LET row == [id |-> id,
                   role |-> IF role = "" THEN "comprador" ELSE role]
       IN  [res |-> Created(row),
            store |-> [T EXCEPT !.users = With(@, id, row)]]

\* POST /login with the email of user id and a password that bcrypt.compare
\* accepts or not
Login(T, id, isPasswordValid, fail) ==
  IF fail = 1 THEN Kept(T, Error(500, "Erro ao fazer login"))
  ELSE IF id \notin DOMAIN T.users
    THEN Kept(T, Error(400, "Usuario nao encontrado"))
  ELSE IF ~isPasswordValid THEN Kept(T, Error(400, "Senha invalida"))
  ELSE Kept(T, Ok([token |-> Bearer(id, T.users[id].role),
                   user |-> T.users[id]]))

RECURSIVE CleanUp(_, _, _, _, _)
\* DELETE /users/:id, the loop over the seller's products: for each product
\* the DELETE of its order_items, then the DELETE of the product.  q is the
\* position of the next query.
CleanUp(T, ids, q, onDelete, fail) ==
  IF ids = {} THEN [store |-> T, q |-> q, failed |-> FALSE]
  ELSE LET id == CHOOSE x \in ids : TRUE
           T1 == DeleteOrderItemsOf(T, id)
       IN  IF fail = q THEN [store |-> T, q |-> q, failed |-> TRUE]
           ELSE IF fail = q + 1 \/ ProductDeleteRejected(T1, id, onDelete)
             THEN [store |-> T1, q |-> q + 1, failed |-> TRUE]
           ELSE CleanUp(DeleteProductRow(T1, id), ids \ {id}, q + 2,
                        onDelete, fail)

\* DELETE FROM users WHERE id = $1 is rejected by the store
UserDeleteRejected(T, id, onDelete) ==
  /\ onDelete = "NO ACTION"
  /\ \/ Refers(T.orders, "buyer_id", id)
     \/ Refers(T.wishlist, "user_id", id)
     \/ Refers(T.reviews, "user_id", id)
     \/ \E p \in DOMAIN T.products : T.products[p].seller_id = id

\* DELETE FROM users WHERE id = $1, when the store accepts it
DeleteUserRow(T, id) ==
  LET gone == {i \in 1..Len(T.orders) : T.orders[i].buyer_id = id}
      sold == {p \in DOMAIN T.products : T.products[p].seller_id = id}
  IN  [T EXCEPT
         !.users       = Without(@, id),
         !.products    = [p \in DOMAIN @ \ sold |-> @[p]],
         !.orders      = [i \in 1..Len(@) |->
                            IF i \in gone THEN DeletedOrder ELSE @[i]],
         !.order_items = SelectSeq(@, LAMBDA row : /\ row.order_id \notin gone
                                                  /\ row.product_id \notin sold),
         !.wishlist    = SelectSeq(@, LAMBDA row : /\ row.user_id # id
                                                  /\ row.product_id \notin sold),
         !.reviews     = SelectSeq(@, LAMBDA row : /\ row.user_id # id
                                                  /\ row.product_id \notin sold)]

\* DELETE /users/:id
RemoveUser(T, id, onDelete, fail) ==
  IF fail = 1 THEN Kept(T, Error(500, "Erro ao remover usuario"))
  ELSE IF id \notin DOMAIN T.users
    THEN Kept(T, Error(404, "Usuario nao encontrado"))
  ELSE IF fail = 2 THEN Kept(T, Error(500, "Erro ao remover usuario"))
  ELSE LET own  == {p \in DOMAIN T.products : T.products[p].seller_id = id}
           loop == CleanUp(T, own, 3, onDelete, fail)
       IN  IF \/ loop.failed
              \/ fail = loop.q
              \/ UserDeleteRejected(loop.store, id, onDelete)
             THEN Kept(loop.store, Error(500, "Erro ao remover usuario"))
             ELSE [res |-> Ok("Usuario removido com sucesso"),
                   store |-> DeleteUserRow(loop.store, id)]

\* no request is being handled
Idle == \A q \in Reqs : ~InFlight(q)

\* A request of one of these routes is served: refusal is what the
\* middleware of the route answers (Forward when it lets the request
\* through), outcome what the handler does.
Serve(r, route, h, id, refusal, outcome) ==
  /\ Arrive(r, route, h, id)
  /\ UNCHANGED body
  /\ LET out == IF refusal # Forward THEN Kept(store, refusal) ELSE outcome
     IN  /\ Reply(r, out.res)
         /\ products' = out.store.products
         /\ orders' = out.store.orders
         /\ order_items' = out.store.order_items
         /\ users' = out.store.users
         /\ wishlist' = out.store.wishlist
         /\ reviews' = out.store.reviews

SellerOrAdmin(h) == Chain(Authenticate(h), CheckAdminOrRole("vendedor", h))
BuyerOrAdmin(h)  == Chain(Authenticate(h), CheckAdminOrRole("comprador", h))
AdminOnly(h)     == Chain(Authenticate(h), CheckAdminOnly(h))

\* The routes, in the order in which the server registers them.
PostRegister(r, role, fail) ==
  /\ Idle
  /\ Serve(r, "POST /register", NoHeader, NoId, Forward,
           Register(store, FreshUserId(r), role, fail))

PostLogin(r, id, isPasswordValid, fail) ==
  /\ Idle
  /\ Serve(r, "POST /login", NoHeader, NoId, Forward,
           Login(store, id, isPasswordValid, fail))

PostProductsUpload(r, h, price, stock, fail) ==
  /\ Idle
  /\ Serve(r, "POST /products/upload", h, NoId, SellerOrAdmin(h),
           UploadProduct(store, h, FreshProductId(r), price, stock, fail))

\* The GET routes whose path is /products/<segment>, in the order in which
\* the server registers them.
GetProductsRoutes ==
  <<"GET /products/:id", "GET /products/all", "GET /products/admin">>

\* the path /products/<segment> matches the pattern of the route
Matches(route, segment) ==
  CASE route = "GET /products/:id"   -> TRUE
    [] route = "GET /products/all"   -> segment = "all"
    [] route = "GET /products/admin" -> segment = "admin"

\* the router hands the request to the first registered route that matches;
\* no handler of these routes calls next()
Dispatch(routes, segment) ==
  LET first == CHOOSE i \in 1..Len(routes) :
                 /\ Matches(routes[i], segment)
                 /\ \A j \in 1..(i - 1) : ~Matches(routes[j], segment)
  IN  routes[first]

\* GET /products/<segment>
GetProductsId(r, h, id, fail) ==
  /\ Idle
  /\ LET route == Dispatch(GetProductsRoutes, id)
     IN  CASE route = "GET /products/:id" ->
                Serve(r, route, h, id, SellerOrAdmin(h),
                      GetProduct(store, h, id, fail))
           [] route = "GET /products/all" ->
                Serve(r, route, h, id, SellerOrAdmin(h),
                      ListAllProducts(store, fail))
           [] route = "GET /products/admin" ->
                Serve(r, route, h, id, AdminOnly(h),
                      ListProductsAdmin(store, fail))

PutProductsId(r, h, id, price, stock, fail) ==
  /\ Idle
  /\ Serve(r, "PUT /products/:id", h, id, SellerOrAdmin(h),
           EditProduct(store, h, id, price, stock, fail))

DeleteProductsId(r, h, id, onDelete, fail) ==
  /\ Idle
  /\ Serve(r, "DELETE /products/:id", h, id, SellerOrAdmin(h),
           RemoveProduct(store, h, id, onDelete, fail))

GetProducts(r, fail) ==
  /\ Idle
  /\ Serve(r, "GET /products", NoHeader, NoId, Forward, ListProducts(store, fail))

GetSellerProducts(r, h, fail) ==
  /\ Idle
  /\ Serve(r, "GET /seller/products", h, NoId, SellerOrAdmin(h),
           ListSellerProducts(store, h, fail))

GetProductsIdReviews(r, h, id, fail) ==
  /\ Idle
  /\ Serve(r, "GET /products/:id/reviews", h, id, Authenticate(h),
           ListReviews(store, id, fail))

PostProductsIdReviews(r, h, id, rating, fail) ==
  /\ Idle
  /\ Serve(r, "POST /products/:id/reviews", h, id, BuyerOrAdmin(h),
           AddReview(store, h, id, rating, fail))

GetWishlist(r, h, fail) ==
  /\ Idle
  /\ Serve(r, "GET /wishlist", h, NoId, BuyerOrAdmin(h),
           ListWishlist(store, h, fail))

PostWishlist(r, h, product_id, fail) ==
  /\ Idle
  /\ Serve(r, "POST /wishlist", h, NoId, BuyerOrAdmin(h),
           AddWishlist(store, h, product_id, fail))

DeleteWishlistId(r, h, id, fail) ==
  /\ Idle
  /\ Serve(r, "DELETE /wishlist/:id", h, id, BuyerOrAdmin(h),
           RemoveWishlist(store, h, id, fail))

\* POST /orders, served like the other routes: one request at a time
PostOrdersAlone(r, h, isArray, nxt) ==
  /\ Idle
  /\ PostOrders(r, h, isArray, nxt)

GetOrders(r, h, fail) ==
  /\ Idle
  /\ Serve(r, "GET /orders", h, NoId, BuyerOrAdmin(h), ListOrders(store, h, fail))

GetUsers(r, h, fail) ==
  /\ Idle
  /\ Serve(r, "GET /users", h, NoId, AdminOnly(h), ListUsers(store, fail))

DeleteUsersId(r, h, id, onDelete, fail) ==
  /\ Idle
  /\ Serve(r, "DELETE /users/:id", h, id, AdminOnly(h),
           RemoveUser(store, id, onDelete, fail))

DeleteProductsAdminId(r, h, id, onDelete, fail) ==
  /\ Idle
  /\ Serve(r, "DELETE /products/admin/:id", h, id, AdminOnly(h),
           RemoveProductAdmin(store, id, onDelete, fail))

\* lines of the orders placed among requests of the other routes: an
\* existing product and a positive quantity
ReadsApi   == {x \in Reads : x = EndOfArray
                 \/ (x.product_id \in ProductIds /\ x.quantity > 0)}
RolesSent  == {"", "admin"}       \* req.body.role of a registration
\* the callers: no header, no token, a bad token, the first buyer, the
\* seller and the administrator
HeadersApi == {NoHeader, NoToken, InvalidToken}
                \cup {Bearer(u, RoleOf(u)) : u \in {1, NumReqs + 1, NumReqs + 2}}
Ratings    == {5}
UserParams == UserIds \cup {0}    \* 0 is the id of no user

\* The whole server, its requests handled one at a time.  A request that has
\* not arrived yet arrives at one of the routes; a request being handled
\* takes its next step.
NextApi ==
  \E r \in Reqs :
    \/ /\ pc[r] = "idle"
       /\ \E role \in RolesSent, fail \in Fails :
            PostRegister(r, role, fail)
    \/ /\ pc[r] = "idle"
       /\ \E id \in UserParams, ok \in BOOLEAN, fail \in Fails :
            PostLogin(r, id, ok, fail)
    \/ /\ pc[r] = "idle"
       /\ \E h \in HeadersApi, price \in NewPrices, stock \in NewStocks,
             fail \in Fails :
            PostProductsUpload(r, h, price, stock, fail)
    \/ /\ pc[r] = "idle"
       /\ \E h \in HeadersApi, id \in Segments, fail \in Fails :
            GetProductsId(r, h, id, fail)
    \/ /\ pc[r] = "idle"
       /\ \E h \in HeadersApi, id \in PathIds, price \in NewPrices \ {0},
             stock \in NewStocks, fail \in Fails :
            PutProductsId(r, h, id, price, stock, fail)
    \/ /\ pc[r] = "idle"
       /\ \E h \in HeadersApi, id \in PathIds, onDelete \in OnDelete,
             fail \in Fails :
            DeleteProductsId(r, h, id, onDelete, fail)
    \/ /\ pc[r] = "idle"
       /\ \E fail \in Fails :
            GetProducts(r, fail)
    \/ /\ pc[r] = "idle"
       /\ \E h \in HeadersApi, fail \in Fails :
            GetSellerProducts(r, h, fail)
    \/ /\ pc[r] = "idle"
       /\ \E h \in HeadersApi, id \in PathIds, fail \in Fails :
            GetProductsIdReviews(r, h, id, fail)
    \/ /\ pc[r] = "idle"
       /\ \E h \in HeadersApi, id \in PathIds, rating \in Ratings,
             fail \in Fails :
            PostProductsIdReviews(r, h, id, rating, fail)
    \/ /\ pc[r] = "idle"
       /\ \E h \in HeadersApi, fail \in Fails :
            GetWishlist(r, h, fail)
    \/ /\ pc[r] = "idle"
       /\ \E h \in HeadersApi, id \in PathIds, fail \in Fails :
            PostWishlist(r, h, id, fail)
    \/ /\ pc[r] = "idle"
       /\ \E h \in HeadersApi, id \in PathIds, fail \in Fails :
            DeleteWishlistId(r, h, id, fail)
    \/ /\ pc[r] = "idle"
       /\ \E h \in HeadersApi, isArray \in BOOLEAN, nxt \in ReadsApi :
            PostOrdersAlone(r, h, isArray, nxt)
    \/ \E nxt \in ReadsApi : Select(r, nxt)
    \/ \E e \in FloatErr : InsertOrder(r, e)
    \/ InsertItem(r)
    \/ UpdateStock(r)
    \/ QueryFail(r)
    \/ /\ pc[r] = "idle"
       /\ \E h \in HeadersApi, fail \in Fails :
            GetOrders(r, h, fail)
    \/ /\ pc[r] = "idle"
       /\ \E h \in HeadersApi, fail \in Fails :
            GetUsers(r, h, fail)
    \/ /\ pc[r] = "idle"
       /\ \E h \in HeadersApi, id \in UserParams, onDelete \in OnDelete,
             fail \in Fails :
            DeleteUsersId(r, h, id, onDelete, fail)
    \/ /\ pc[r] = "idle"
       /\ \E h \in HeadersApi, id \in PathIds, onDelete \in OnDelete,
             fail \in Fails :
            DeleteProductsAdminId(r, h, id, onDelete, fail)

\* the server starts with every product in stock
InitApi == Init /\ \A p \in ProductIds : products[p].stock = MaxStock

SpecApi == InitApi /\ [][NextApi]_vars

\* ------------------------------------------- POST /wishlist, query by query
\* The handler of POST /wishlist awaits three queries; requests interleave at
\* each of them.  The product the body names is kept as the request's id.
InWishlist(rows, user_id, product_id) ==
  \E i \in 1..Len(rows) :
    rows[i] = [user_id |-> user_id, product_id |-> product_id]

\* the request arrives: middleware, then SELECT * FROM products is issued
PostWishlistArrive(r, h, product_id) ==
  /\ Arrive(r, "POST /wishlist", h, product_id)
  /\ UNCHANGED <<products, orders, order_items, users, wishlist, reviews,
                 body>>
  /\ IF BuyerOrAdmin(h) # Forward
       THEN Reply(r, BuyerOrAdmin(h))
       ELSE /\ Await(r, "selectWished", 0)
            /\ UNCHANGED <<total, productDetails, productsResult, product, order>>

\* SELECT * FROM products WHERE id = $1 returns
SelectWished(r) ==
  /\ pc[r] = "selectWished"
  /\ UNCHANGED <<products, orders, order_items, users, wishlist, reviews,
                 body, pre, req>>
  /\ IF req[r].id \notin DOMAIN products
       THEN Reply(r, Error(404, "Produto nao encontrado"))
       ELSE /\ Await(r, "selectExisting", 0)
            /\ UNCHANGED <<total, productDetails, productsResult, product, order>>

\* SELECT * FROM wishlist WHERE user_id = $1 AND product_id = $2 returns
SelectExisting(r) ==
  /\ pc[r] = "selectExisting"
  /\ UNCHANGED <<products, orders, order_items, users, wishlist, reviews,
                 body, pre, req>>
  /\ IF InWishlist(wishlist, UserOf(r), req[r].id)
       THEN Reply(r, Error(400, "Produto ja esta na lista de desejos"))
       ELSE /\ Await(r, "insertWish", 0)
            /\ UNCHANGED <<total, productDetails, productsResult, product, order>>

\* INSERT INTO wishlist (user_id, product_id) returns; the entity declares no
\* unique constraint on the pair
InsertWish(r) ==
  /\ pc[r] = "insertWish"
  /\ wishlist' = Append(wishlist, [user_id |-> UserOf(r),
                                   product_id |-> req[r].id])
  /\ UNCHANGED <<products, orders, order_items, users, reviews, body, pre,
                 req>>
  /\ Reply(r, Ok("Produto adicionado a lista de desejos com sucesso"))

\* the awaited query rejects: the catch block answers 500
WishFail(r) ==
  /\ pc[r] \in {"selectWished", "selectExisting", "insertWish"}
  /\ UNCHANGED <<products, orders, order_items, users, wishlist, reviews,
                 body, pre, req>>
  /\ Reply(r, Error(500, "Erro ao adicionar a lista de desejos"))

NextWish ==
  \E r \in Reqs :
    \/ \E h \in HeadersApi, id \in PathIds : PostWishlistArrive(r, h, id)
    \/ SelectWished(r)
    \/ SelectExisting(r)
    \/ InsertWish(r)
    \/ WishFail(r)

SpecWish == InitApi /\ [][NextWish]_vars

\* ---------------------------------------- DELETE /users/:id, query by query
\* The handler of DELETE /users/:id awaits one query at a time; uploads of
\* products and order requests run between its queries.
RECURSIVE RowsOf(_)
\* the rows that a SELECT returns, in the order of the store
RowsOf(ids) ==
  IF ids = {} THEN <<>>
  ELSE LET id == CHOOSE x \in ids : TRUE
       IN  <<id>> \o RowsOf(ids \ {id})

\* the request arrives: middleware, then SELECT * FROM users is issued
DeleteUsersIdArrive(r, h, id) ==
  /\ Arrive(r, "DELETE /users/:id", h, id)
  /\ UNCHANGED <<products, orders, order_items, users, wishlist, reviews,
                 body>>
  /\ IF AdminOnly(h) # Forward
       THEN Reply(r, AdminOnly(h))
       ELSE /\ Await(r, "selectUser", 0)
            /\ UNCHANGED <<total, productDetails, productsResult, product,
                           order>>

\* SELECT * FROM users WHERE id = $1 returns
SelectUser(r) ==
  /\ pc[r] = "selectUser"
  /\ UNCHANGED <<products, orders, order_items, users, wishlist, reviews,
                 body, pre, req>>
  /\ IF req[r].id \notin DOMAIN users
       THEN Reply(r, Error(404, "Usuario nao encontrado"))
       ELSE /\ Await(r, "selectSold", 0)
            /\ UNCHANGED <<total, productDetails, productsResult, product,
                           order>>

\* SELECT * FROM products WHERE seller_id = $1 returns: the loop starts at
\* its first row, or the DELETE of the user is issued when there is none
SelectSold(r) ==
  /\ pc[r] = "selectSold"
  /\ UNCHANGED <<products, orders, order_items, users, wishlist, reviews,
                 body, pre, req>>
  /\ LET rows == RowsOf({p \in DOMAIN products :
                           products[p].seller_id = req[r].id})
     IN  /\ productsResult' = [productsResult EXCEPT ![r] = rows]
         /\ IF rows = <<>> THEN Await(r, "deleteUser", 0)
                           ELSE Await(r, "deleteItems", 1)
  /\ UNCHANGED <<total, productDetails, product, order>>

\* DELETE FROM order_items WHERE product_id = $1 returns
DeleteItems(r) ==
  /\ pc[r] = "deleteItems"
  /\ order_items' =
       DeleteOrderItemsOf(store, productsResult[r][idx[r]]).order_items
  /\ UNCHANGED <<products, orders, users, wishlist, reviews, body, pre, req>>
  /\ Await(r, "deleteProduct", idx[r])
  /\ UNCHANGED <<total, productDetails, productsResult, product, order>>

\* DELETE FROM products WHERE id = $1 returns, or is rejected because rows
\* still reference the product
DeleteProduct(r, onDelete) ==
  /\ pc[r] = "deleteProduct"
  /\ UNCHANGED <<orders, users, body, pre, req>>
  /\ LET id == productsResult[r][idx[r]]
         T  == DeleteProductRow(store, id)
     IN  IF ProductDeleteRejected(store, id, onDelete)
           THEN /\ UNCHANGED <<products, order_items, wishlist, reviews>>
                /\ Reply(r, Error(500, "Erro ao remover usuario"))
           ELSE /\ products' = T.products
                /\ order_items' = T.order_items
                /\ wishlist' = T.wishlist
                /\ reviews' = T.reviews
                /\ IF idx[r] = Len(productsResult[r])
                     THEN Await(r, "deleteUser", 0)
                     ELSE Await(r, "deleteItems", idx[r] + 1)
                /\ UNCHANGED <<total, productDetails, productsResult,
                               product, order>>

\* DELETE FROM users WHERE id = $1 returns, or is rejected because rows
\* still reference the user
DeleteUser(r, onDelete) ==
  /\ pc[r] = "deleteUser"
  /\ UNCHANGED <<body, pre, req>>
  /\ LET T == DeleteUserRow(store, req[r].id)
     IN  IF UserDeleteRejected(store, req[r].id, onDelete)
           THEN /\ UNCHANGED <<products, orders, order_items, users,
                               wishlist, reviews>>
                /\ Reply(r, Error(500, "Erro ao remover usuario"))
           ELSE /\ products' = T.products
                /\ orders' = T.orders
                /\ order_items' = T.order_items
                /\ users' = T.users
                /\ wishlist' = T.wishlist
                /\ reviews' = T.reviews
                /\ Reply(r, Ok("Usuario removido com sucesso"))

\* a query of the removal fails for another reason: the catch block
RemovalFail(r) ==
  /\ pc[r] \in {"selectUser", "selectSold", "deleteItems", "deleteProduct",
                "deleteUser"}
  /\ UNCHANGED <<products, orders, order_items, users, wishlist, reviews,
                 body, pre, req>>
  /\ Reply(r, Error(500, "Erro ao remover usuario"))

\* POST /products/upload issues a single query: served in one step, also
\* while other requests are in flight
PostProductsUploadNow(r, h, price, stock, fail) ==
  Serve(r, "POST /products/upload", h, NoId, SellerOrAdmin(h),
        UploadProduct(store, h, FreshProductId(r), price, stock, fail))

\* the users whose removal is asked for: a seller, a buyer, nobody
Removed == {1, NumReqs + 1, 0}
\* callers of the three routes
HeadersRemoval == {Bearer(u, RoleOf(u)) : u \in {1, NumReqs + 1, NumReqs + 2}}

NextRemoval ==
  \E r \in Reqs :
    \/ \E h \in HeadersRemoval, id \in Removed : DeleteUsersIdArrive(r, h, id)
    \/ SelectUser(r)
    \/ SelectSold(r)
    \/ DeleteItems(r)
    \/ \E onDelete \in OnDelete : DeleteProduct(r, onDelete)
    \/ \E onDelete \in OnDelete : DeleteUser(r, onDelete)
    \/ RemovalFail(r)
    \/ \E h \in HeadersRemoval, price \in NewPrices, stock \in NewStocks,
          fail \in 0..1 :
         PostProductsUploadNow(r, h, price, stock, fail)
    \/ \E h \in HeadersRemoval, nxt \in ReadsApi : PostOrders(r, h, TRUE, nxt)
    \/ \E nxt \in ReadsApi : Select(r, nxt)
    \/ \E e \in FloatErr : InsertOrder(r, e)
    \/ InsertItem(r)
    \/ UpdateStock(r)
    \/ QueryFail(r)

SpecRemoval == InitApi /\ [][NextRemoval]_vars

\* ------------------------------------------------- vocabulary of the claims
Done(r)   == pc[r] = "done"
Status(r) == res[r].status

\* Requests are numbered in arrival order.  When they are handled one at a
\* time, the request that finished last is the done request with no later
\* arrival, and the store is then as that request left it.
Latest(r) == Done(r) /\ \A q \in Reqs : q > r => pc[q] = "idle"

Lines(r) == body[r].items

RECURSIVE Ordered(_, _)
\* the quantity of product p that the lines order in all
Ordered(items, p) ==
  IF items = <<>> THEN 0
  ELSE (IF Head(items).product_id = p THEN Head(items).quantity ELSE 0)
         + Ordered(Tail(items), p)

RECURSIVE LineTotal(_, _)
\* sum of quantity * unit price over the rows of order_items of one order
LineTotal(rows, id) ==
  IF rows = <<>> THEN 0
  ELSE (IF Head(rows).order_id = id
          THEN Head(rows).quantity * Head(rows).price ELSE 0)
         + LineTotal(Tail(rows), id)

\* every line names an existing product once, with a positive quantity
WellFormed(items) ==
  /\ \A i \in 1..Len(items) :
       items[i].product_id \in ProductIds /\ items[i].quantity > 0
  /\ \A i, j \in 1..Len(items) :
       i # j => items[i].product_id # items[j].product_id

\* the request read no line: req.body.products = []
EmptyList(r) == pc[r] # "idle" /\ body[r].isArray /\ Lines(r) = <<>>

\* The request ended at the availability check of its last line (the line
\* was neither falsy nor followed by another).  Handled alone, the row that
\* check read is the row of the store the request found on arrival.
LastLine(r) == Lines(r)[Len(Lines(r))]
RowSeen(r)  == SelectProduct(pre[r].products, LastLine(r).product_id)
FailedAvailability(r) ==
  /\ Done(r) /\ Status(r) = 400
  /\ body[r].isArray /\ Lines(r) # <<>> /\ ~FalsyLine(LastLine(r))
Cause(r) == IF RowSeen(r) = NoRow THEN "ProductUnavailable"
            ELSE "InsufficientStock"

\* ------------------------------------------------------------------ claims
\* C1: for every interleaving of concurrent order commits that request the
\* same product, the product's stock is never negative.  Stated for requests
\* whose lines are well formed, so that only the interleaving is at stake.
C1_StockNeverNegative ==
  (\A r \in Reqs : WellFormed(Lines(r)))
    => \A p \in DOMAIN products : products[p].stock >= 0

\* C2: two commits that run simultaneously and each request quantity 1 of a
\* product whose stock is 1: exactly one succeeds, the other is refused with
\* status 400 and creates no order.
C2_LastUnitSoldOnce ==
  \A r1, r2 \in Reqs :
    ( /\ r1 < r2
      /\ Done(r1) /\ Done(r2)
      /\ pre[r1].products["A"].stock = 1
      /\ pre[r2] = pre[r1]
      /\ Lines(r1) = <<[product_id |-> "A", quantity |-> 1]>>
      /\ Lines(r2) = <<[product_id |-> "A", quantity |-> 1]>>
      /\ Status(r1) # 500 /\ Status(r2) # 500 )
    => /\ {Status(r1), Status(r2)} = {201, 400}
       /\ Len(orders) = Len(pre[r1].orders) + 1

\* C3: an order commit is all-or-nothing: when a store operation of the
\* request fails (status 500), nothing the request wrote remains: the store
\* is as the request found it.  Stated for requests whose lines are well
\* formed.
C3_AllOrNothing ==
  \A r \in Reqs :
    Latest(r) /\ Status(r) = 500 /\ WellFormed(Lines(r)) => store = pre[r]

\* C4: when a line fails validation (missing id or quantity, unknown product,
\* quantity above stock), whatever its position, the request fails and the
\* store is unchanged.
C4_ValidationFailureLeavesStore ==
  \A r \in Reqs : Latest(r) /\ Status(r) = 400 => store = pre[r]

\* a request refused at its second line, after a first line that passed, in
\* a store that already holds an order
C4_Witness ==
  \E r \in Reqs :
    /\ Latest(r) /\ FailedAvailability(r)
    /\ Len(Lines(r)) = 2
    /\ orders # <<>>

\* C5: after any sequence of order commits handled one at a time every
\* product's stock is non-negative, also when one request names the same
\* product in several lines.
C5_SequentialStockNonNegative ==
  \A p \in DOMAIN products : products[p].stock >= 0

\* C6: after a successful commit handled without concurrent writers, each
\* product's stock is its stock before the commit minus the quantity the
\* request ordered of it; products not in the request keep their stock.
C6_StockAfterCommit ==
  \A r \in Reqs :
    Latest(r) /\ Status(r) = 201 =>
      /\ DOMAIN products = DOMAIN pre[r].products
      /\ \A p \in DOMAIN products :
           products[p].stock =
             pre[r].products[p].stock - Ordered(Lines(r), p)

\* a successful commit of two lines that orders product A and not product B
C6_Witness ==
  \E r \in Reqs :
    /\ Latest(r) /\ Status(r) = 201
    /\ Len(Lines(r)) = 2
    /\ Ordered(Lines(r), "A") # 0
    /\ \A i \in 1..2 : Lines(r)[i].product_id = "A"
    /\ products["B"].stock = pre[r].products["B"].stock

\* C7: for every successful commit the total stored in the order header is
\* the sum, over the order's stored line items, of quantity times unit price.
C7_TotalIsSumOfLines ==
  \A r \in Reqs :
    Done(r) /\ Status(r) = 201 =>
      /\ orders[res[r].json.id] = res[r].json
      /\ orders[res[r].json.id].total = LineTotal(order_items, res[r].json.id)

\* two successful commits, one of them of two lines with a non-zero total
C7_Witness ==
  /\ \A r \in Reqs : Done(r) /\ Status(r) = 201
  /\ \E r \in Reqs : Len(Lines(r)) = 2 /\ res[r].json.total > 0

\* C8: a request with an empty item list is refused with a validation error
\* and creates no order row.
C8_EmptyListRejected ==
  \A r \in Reqs :
    EmptyList(r) /\ Done(r) /\ Status(r) # 500 =>
      /\ Status(r) = 400
      /\ \A i \in 1..Len(orders) : orders[i].buyer_id # UserOf(r)

\* C9: every stored line item has a positive quantity.
C9_PositiveQuantities ==
  \A i \in 1..Len(order_items) : order_items[i].quantity > 0

StillThere(before, now) ==
  \A i \in 1..Len(before) : i <= Len(now) /\ now[i] = before[i]

\* C11: line items are append-only: no operation (product edit, product
\* removal, user removal, later orders) modifies or deletes a line item that
\* exists: the line items a request found are there when it has been served.
\* Stated for every request but those of DELETE /products/:id and
\* DELETE /users/:id, where what happens to the line items may depend on the
\* schema; the removal of a product by an administrator is among the
\* requests left.
C11_LineItemsAppendOnly ==
  \A r \in Reqs :
    ( /\ Latest(r)
      /\ req[r].route \notin {"DELETE /products/:id", "DELETE /users/:id"} )
    => StillThere(pre[r].order_items, order_items)

\* C12: the unit price stored in a line item is the price the product had
\* when the order was validated, and a later edit of the product (PUT
\* /products/:id) changes neither the unit price of an existing line item nor
\* the total of an existing order.  Requests are handled one at a time, so
\* the price a request validated is the price in the store it found.
C12_PriceSnapshot ==
  \A r \in Reqs :
    Latest(r) =>
      /\ req[r].route = "POST /orders" =>
            \A i \in 1..Len(order_items) :
              i > Len(pre[r].order_items) =>
                order_items[i].price =
                  pre[r].products[order_items[i].product_id].price
      /\ req[r].route = "PUT /products/:id" =>
            /\ order_items = pre[r].order_items
            /\ orders = pre[r].orders

\* a product is sold at one price and then edited to another: its line item
\* keeps the price of the sale
C12_Witness ==
  \E r \in Reqs :
    /\ Latest(r) /\ req[r].route = "PUT /products/:id" /\ Status(r) = 200
    /\ \E i \in 1..Len(order_items) :
         /\ order_items[i].product_id = req[r].id
         /\ order_items[i].price # products[req[r].id].price
         /\ orders[order_items[i].order_id].total = order_items[i].price

\* C13: an order and its line items are created together: in no state that
\* another request can observe does an order row exist while line items of it
\* are still missing.  Every state between two queries is observable, and an
\* order row whose line items are not all stored shows in its total, which
\* differs from the sum of the line items stored for it.  Stated for requests
\* whose lines are well formed.
C13_OrderNeverPartial ==
  (\A r \in Reqs : WellFormed(Lines(r)))
    => \A i \in 1..Len(orders) :
         orders[i].total = LineTotal(order_items, orders[i].id)

\* the line the request validated last, as pushed to productDetails
LastDetail(r) == productDetails[r][Len(productDetails[r])]

\* C14: for every committed order, the quantity of each line did not exceed
\* the stock of its product that the same request read when it validated the
\* line.  Every line is, right after its validation, the last one pushed to
\* productDetails, and product is then the row the request read for it; the
\* line items stored for the request's order are lines of productDetails.
C14_QuantityWithinStockRead ==
  \A r \in Reqs :
    /\ productDetails[r] # <<>> =>
          /\ product[r].id = LastDetail(r).product_id
          /\ LastDetail(r).quantity <= product[r].stock
    /\ order[r] # NoOrder =>
          \A j \in 1..Len(order_items) :
            order_items[j].order_id = order[r].id =>
              \E i \in 1..Len(productDetails[r]) :
                /\ order_items[j].product_id = productDetails[r][i].product_id
                /\ order_items[j].quantity = productDetails[r][i].quantity

\* a request stores a line whose quantity is the stock it read, while the
\* stock has since been taken by another request
C14_Witness ==
  \E r \in Reqs :
    /\ order[r] # NoOrder
    /\ pc[r] = "updateStock"
    /\ LastDetail(r).quantity = product[r].stock
    /\ products[LastDetail(r).product_id].stock < LastDetail(r).quantity

\* the status set of an order
Statuses == {"pending", "paid", "shipped", "delivered", "cancelled"}

\* C15: every order is stored with the initial status pending, a member of
\* the status set, and no operation changes the status afterwards: the
\* status of every stored order is pending.  Stated for requests with at
\* least one line and well-formed lines.
C15_StatusPending ==
  (\A r \in Reqs : WellFormed(Lines(r)) /\ ~EmptyList(r))
    => \A i \in 1..Len(orders) :
         orders[i].status \in Statuses /\ orders[i].status = "pending"

\* every product the request found and that still exists has the stock the
\* request found
StockKept(r) ==
  \A p \in DOMAIN pre[r].products \cap DOMAIN products :
    products[p].stock = pre[r].products[p].stock

\* C16: the stock of a product is changed only by a successful order commit
\* or by a product edit (PUT /products/:id): a request of any other kind
\* (register, login, product listing and lookup, reviews, wishlist, order
\* listing, user listing, ...), and an order request that does not succeed,
\* leaves the stock of every existing product as it found it.
C16_StockChangedOnlyByCommitOrEdit ==
  \A r \in Reqs :
    Latest(r) =>
      \/ req[r].route = "PUT /products/:id"
      \/ req[r].route = "POST /orders" /\ Status(r) = 201
      \/ StockKept(r)

\* the routes registered behind checkAdminOrRole(role), and behind
\* checkAdminOnly
RoutesOf(role) ==
  IF role = "vendedor"
    THEN {"POST /products/upload", "GET /products/:id", "PUT /products/:id",
          "DELETE /products/:id", "GET /seller/products"}
  ELSE IF role = "comprador"
    THEN {"POST /products/:id/reviews", "GET /wishlist", "POST /wishlist",
          "DELETE /wishlist/:id", "POST /orders", "GET /orders"}
  ELSE {"GET /users", "DELETE /users/:id", "DELETE /products/admin/:id"}

\* the request carries a token that verifies
Verified(r) == req[r].authorization.jwt = "verified"
\* the caller of the request qualifies for its route
Qualifies(r) ==
  /\ Verified(r)
  /\ \E role \in {"vendedor", "comprador", "admin"} :
       /\ req[r].route \in RoutesOf(role)
       /\ req[r].authorization.role \in {role, "admin"}
Protected(r) ==
  req[r].route \in RoutesOf("vendedor") \cup RoutesOf("comprador")
                    \cup RoutesOf("admin")

\* C17: a protected operation takes effect only for a qualifying caller: a
\* request to a route behind checkAdminOrRole(role) or checkAdminOnly whose
\* token does not verify is answered 401, one whose role is neither the
\* role of the route nor admin is answered 403, and in both cases the store
\* is as the request found it.
C17_OnlyQualifyingCallers ==
  \A r \in Reqs :
    Done(r) /\ Protected(r) /\ ~Qualifies(r) =>
      /\ Status(r) = IF Verified(r) THEN 403 ELSE 401
      /\ Latest(r) => store = pre[r]

\* after an order has been placed, a caller who is not an administrator
\* is refused on one of the administrator's routes
C17_Witness ==
  \E r \in Reqs :
    /\ Latest(r) /\ Protected(r) /\ ~Qualifies(r)
    /\ req[r].route \in RoutesOf("admin")
    /\ order_items # <<>>
    /\ \E q \in Reqs :
         /\ req[q].route = "POST /orders" /\ Qualifies(q) /\ Status(q) = 201

\* the place of a query in the order claimed for one commit
Rank(query) ==
  CASE query = "idle"        -> 0
    [] query = "select"      -> 1
    [] query = "insertOrder" -> 2
    [] query = "insertItem"  -> 3
    [] query = "updateStock" -> 4
    [] OTHER                 -> 5

\* request r takes a step: the query it was waiting for has returned
Steps(r) == InFlight(r) /\ (pc'[r] # pc[r] \/ idx'[r] # idx[r])

\* C18: within one order commit the store operations occur in a fixed order:
\* every product read precedes the insert of the order header, which
\* precedes every insert of a line item, which precedes every stock
\* decrement.  Each step of a request runs the query the request waits for
\* and nothing else, the order header is inserted once, and the request
\* never goes back to a query of an earlier kind.
C18_FixedOrderOfQueries ==
  [][\A r \in Reqs :
       Steps(r) =>
         /\ Rank(pc'[r]) >= Rank(pc[r])
         /\ pc[r] = "insertOrder" => pc'[r] # "insertOrder"
         /\ orders' # orders =>
               pc[r] = "insertOrder" /\ Len(orders') = Len(orders) + 1
         /\ order_items' # order_items =>
               /\ pc[r] = "insertItem"
               /\ Len(order_items') = Len(order_items) + 1
               /\ order_items'[Len(order_items')].order_id = order[r].id
               /\ order[r].id \in 1..Len(orders)
         /\ products' # products => pc[r] = "updateStock"
    ]_vars

\* a request of two lines has run all its queries
C18_Witness ==
  \E r \in Reqs :
    /\ Done(r) /\ Status(r) = 201 /\ Len(Lines(r)) = 2
    /\ Lines(r)[1].product_id # Lines(r)[2].product_id
    /\ \A i \in 1..2 :
         \E j \in 1..Len(order_items) :
           /\ order_items[j].order_id = res[r].json.id
           /\ order_items[j].product_id = Lines(r)[i].product_id
    /\ \A p \in ProductIds : products[p].stock < pre[r].products[p].stock

\* request r asks to edit or remove a product that exists, with a token that
\* verifies, and no query of it is rejected by the store
OnProduct(r) ==
  /\ Done(r) /\ Verified(r) /\ Status(r) # 500
  /\ req[r].route \in {"PUT /products/:id", "DELETE /products/:id"}
  /\ req[r].id \in DOMAIN pre[r].products
\* the requester is the seller who owns the product
Owns(r) == pre[r].products[req[r].id].seller_id = req[r].authorization.id
IsAdmin(r) == req[r].authorization.role = "admin"

\* C19: PUT /products/:id and DELETE /products/:id succeed when the requester
\* is the seller who owns the product or is an administrator; for any other
\* requester they answer 403 and leave the product unchanged.
C19_OwnerOrAdminMayChangeProduct ==
  \A r \in Reqs :
    OnProduct(r) =>
      IF Owns(r) \/ IsAdmin(r)
        THEN Status(r) = 200
        ELSE /\ Status(r) = 403
             /\ Latest(r) => /\ req[r].id \in DOMAIN products
                             /\ products[req[r].id] = pre[r].products[req[r].id]

\* the order rows that request r created
OrdersOf(r) == {i \in 1..Len(orders) : orders[i].buyer_id = UserOf(r)}
\* the response of r is the created order, or an error
Answered(r) ==
  \/ /\ Status(r) = 201
     /\ \E i \in OrdersOf(r) : res[r].json = orders[i]
  \/ Status(r) \in {400, 401, 403, 500} /\ "error" \in DOMAIN res[r]

\* C20: every order request eventually ends, provided each query it awaits
\* returns or fails; it ends with exactly one response, the created order or
\* an error, which nothing changes afterwards; no query is issued again after
\* it failed or after the response, so one request creates at most one order
\* row.
C20_EndsWithOneResponse ==
  /\ \A r \in Reqs : InFlight(r) ~> Done(r)
  /\ [](\A r \in Reqs : /\ Cardinality(OrdersOf(r)) <= 1
                        /\ Done(r) <=> res[r] # NoRes
                        /\ Done(r) => Answered(r) /\ ~ENABLED Settle(r))
  /\ [][\A r \in Reqs : Done(r) => Done(r)' /\ res'[r] = res[r]]_vars

\* a request whose INSERT of a line failed after its order row was created
\* has been answered 500, next to a request answered with its created order
C20_Witness ==
  \E r, q \in Reqs :
    /\ Done(r) /\ Status(r) = 500 /\ Cardinality(OrdersOf(r)) = 1
    /\ Done(q) /\ Status(q) = 201 /\ Cardinality(OrdersOf(q)) = 1

\* request r was a GET for the path /products/<segment> and has been answered
AskedProducts(r, segment) ==
  /\ Done(r)
  /\ \E i \in 1..Len(GetProductsRoutes) : req[r].route = GetProductsRoutes[i]
  /\ req[r].id = segment
\* the response lists every product of the store that r found, unless the
\* query of the listing was rejected
ListsEverything(r) ==
  \/ Status(r) = 500
  \/ res[r] = Ok({pre[r].products[p] : p \in DOMAIN pre[r].products})

\* C21: a GET for /products/all from an authenticated seller or administrator
\* is handled by the handler of GET /products/all and returns every product,
\* and a GET for /products/admin from an administrator is handled by the
\* handler of GET /products/admin; GET /products/:id captures neither.
C21_ListRoutesNotCaptured ==
  \A r \in Reqs :
    /\ ( /\ AskedProducts(r, "all") /\ Verified(r)
          /\ req[r].authorization.role \in {"vendedor", "admin"} )
       => req[r].route = "GET /products/all" /\ ListsEverything(r)
    /\ ( /\ AskedProducts(r, "admin") /\ Verified(r)
          /\ req[r].authorization.role = "admin" )
       => req[r].route = "GET /products/admin" /\ ListsEverything(r)

\* C22: after any sequence and interleaving of POST /wishlist requests the
\* wishlist holds at most one row per (user, product) pair.
C22_OneRowPerPair ==
  \A i, j \in 1..Len(wishlist) : wishlist[i] = wishlist[j] => i = j

\* request r asked for the removal of a user and was answered success
RemovalDone(r) ==
  Done(r) /\ req[r].route = "DELETE /users/:id" /\ Status(r) = 200
\* request q arrived after r did, that is, before r was answered
During(q, r) == q > r /\ pc[q] # "idle"

\* C23: once DELETE /users/:id has answered success, the store holds no
\* product whose seller_id is the removed user and no order line item that
\* references a product of that user (every line item references a product
\* that is there, and none of them is the user's), also when the seller
\* uploads a product or a buyer orders one of the seller's products while
\* the removal is in progress.
C23_RemovalLeavesNothing ==
  \A r \in Reqs :
    RemovalDone(r) =>
      /\ \A p \in DOMAIN products : products[p].seller_id # req[r].id
      /\ \A i \in 1..Len(order_items) :
           /\ order_items[i].product_id \in DOMAIN products
           /\ products[order_items[i].product_id].seller_id # req[r].id

\* a seller was removed with success although a buyer's order of the
\* seller's product arrived and was committed while the removal was running
C23_Witness ==
  \E r, q \in Reqs :
    /\ RemovalDone(r) /\ During(q, r)
    /\ req[q].route = "POST /orders" /\ Done(q) /\ Status(q) = 201
    /\ \E i \in 1..Len(Lines(q)) :
         /\ Lines(q)[i].product_id \in ProductIds
         /\ SellerOf(Lines(q)[i].product_id) = req[r].id

\* the orders of table rows that belong to user u
OrdersOfUser(rows, u) ==
  {rows[i] : i \in {j \in 1..Len(rows) : rows[j].buyer_id = u}}

\* C24: every order is stored with buyer_id equal to the id in the token of
\* the request that placed it, and GET /orders returns to a requester exactly
\* the orders whose buyer_id is the requester's id, each once, and never an
\* order placed by another user.
C24_OrdersIsolatedPerBuyer ==
  \A r \in Reqs :
    /\ (Latest(r) /\ req[r].route = "POST /orders") =>
         \A i \in (Len(pre[r].orders) + 1)..Len(orders) :
           orders[i].buyer_id = UserOf(r)
    /\ (Latest(r) /\ req[r].route = "GET /orders" /\ Status(r) = 200) =>
         /\ \A i \in 1..Len(res[r].json) : res[r].json[i].buyer_id = UserOf(r)
         /\ {res[r].json[i] : i \in 1..Len(res[r].json)}
              = OrdersOfUser(orders, UserOf(r))
         /\ Len(res[r].json) = Cardinality(OrdersOfUser(orders, UserOf(r)))

\* GET /orders answered a requester with an empty list while the table holds
\* the order that another user placed
C24_Witness ==
  \E r, q \in Reqs :
    /\ Latest(r) /\ req[r].route = "GET /orders" /\ Status(r) = 200
    /\ res[r].json = <<>>
    /\ req[q].route = "POST /orders" /\ Done(q) /\ Status(q) = 201
    /\ res[q].json \in OrdersOfUser(orders, UserOf(q))
    /\ UserOf(q) # UserOf(r)

====
